---------------------------- MODULE Spec2Model ----------------------------
(***************************************************************************)
(* A model of backend/app/main.py: the ResponseAnalyzer (a pure scoring    *)
(* function over a response text) and the AgentConnector (one outbound     *)
(* call per execute_agent, with its error handling).                       *)
(*                                                                         *)
(* Texts are TLA+ strings, so that split(), re.split(), lower() and the    *)
(* substring tests of the code are computed character by character.        *)
(* Python floats are modelled as exact rationals <<numerator,              *)
(* denominator>>; a pair with denominator 0 stands for a raised            *)
(* ZeroDivisionError and propagates through the arithmetic like an         *)
(* exception through the call stack.                                       *)
(***************************************************************************)
EXTENDS Integers, Sequences, FiniteSets, TLC

VARIABLES
    (* ResponseAnalyzer.analyze: one call, its arguments and its outcome *)
    response, task_type, execution_time, apc, report,
    (* AgentConnector.execute_agent: one call, the request, the calls sent
       on the network, the provider's answer and the outcome *)
    request, dpc, net, outcome,
    (* the TestingPlatform object, the calls of test_agent in flight, the
       requests that finished (in the order they finished) and the response
       of get_results *)
    test_results, agent_profiles, calls, finished, listing,
    (* api/agents.py: the task store, the background tasks handed to the
       framework and the rows committed to the database *)
    task_store, background, db

avars == <<response, task_type, execution_time, apc, report>>
dvars == <<request, dpc, net, outcome>>
pvars == <<test_results, agent_profiles, calls, finished, listing>>
tvars == <<task_store, background, db>>
vars == <<response, task_type, execution_time, apc, report, request, dpc, net, outcome,
          test_results, agent_profiles, calls, finished, listing,
          task_store, background, db>>

(***************************************************************************)
(* Rational arithmetic (Python float arithmetic, exact).                   *)
(***************************************************************************)
RECURSIVE Gcd(_, _)
Gcd(a, b) == IF b = 0 THEN a ELSE Gcd(b, a % b)

Abs(a) == IF a < 0 THEN -a ELSE a

ZeroDivisionError == <<1, 0>>

IsErr(x) == x[2] = 0

Norm(n, d) ==
    LET g == Gcd(Abs(n), d) IN IF n = 0 THEN <<0, 1>> ELSE <<n \div g, d \div g>>

Num(n) == <<n, 1>>

Frac(n, d) == Norm(n, d)

(* a / b on numbers: raises ZeroDivisionError when b is zero *)
Div(x, y) ==
    IF IsErr(x) \/ IsErr(y) THEN ZeroDivisionError
    ELSE IF y[1] = 0 THEN ZeroDivisionError
    ELSE Norm(x[1] * y[2], y[1] * x[2])

Add(x, y) ==
    IF IsErr(x) \/ IsErr(y) THEN ZeroDivisionError
    ELSE LET l == (x[2] \div Gcd(x[2], y[2])) * y[2]
         IN  Norm(x[1] * (l \div x[2]) + y[1] * (l \div y[2]), l)

Mul(x, y) ==
    IF IsErr(x) \/ IsErr(y) THEN ZeroDivisionError
    ELSE LET g1 == Gcd(Abs(x[1]), y[2])
             g2 == Gcd(Abs(y[1]), x[2])
             a == IF x[1] = 0 THEN 0 ELSE x[1] \div g1
             b == IF y[1] = 0 THEN 0 ELSE y[1] \div g2
             c == IF x[1] = 0 THEN 1 ELSE y[2] \div g1
             d == IF y[1] = 0 THEN 1 ELSE x[2] \div g2
         IN  Norm(a * b, c * d)

(* comparisons are only made on numbers (no comparison site follows an
   unguarded division in the code) *)
Lt(x, y) == x[1] * y[2] < y[1] * x[2]

Le(x, y) == x[1] * y[2] <= y[1] * x[2]

Ge(x, y) == Le(y, x)

Min(x, y) ==
    IF IsErr(x) \/ IsErr(y) THEN ZeroDivisionError
    ELSE IF Le(x, y) THEN x ELSE y

(* whether 100 * x lies exactly half way between two integers *)
IsTie(x) == ~IsErr(x) /\ 2 * ((x[1] * 100) % x[2]) = x[2]

(* round(x, 2), a rational whose denominator divides 100.  Python rounds the
   binary float, which never lies exactly half way between two decimals: at
   an exact tie of the rational value the float's error decides, so the
   direction is the caller's choice `up' *)
Round2(x, up) ==
    IF IsErr(x) THEN ZeroDivisionError
    ELSE LET n == x[1] * 100
             q == n \div x[2]
             r == n % x[2]
         IN  Norm(IF 2 * r > x[2] \/ (2 * r = x[2] /\ up) THEN q + 1 ELSE q, 100)

(***************************************************************************)
(* Strings.                                                                *)
(***************************************************************************)
At(s, i) == SubSeq(s, i, i)

IsUpper(c) ==
    c \in {"A", "B", "C", "D", "E", "F", "G", "H", "I", "J", "K", "L", "M",
           "N", "O", "P", "Q", "R", "S", "T", "U", "V", "W", "X", "Y", "Z"}

(* str.lower() on one character *)
LowerChar(c) ==
    IF ~IsUpper(c) THEN c
    ELSE CASE c = "A" -> "a" [] c = "B" -> "b" [] c = "C" -> "c" [] c = "D" -> "d"
           [] c = "E" -> "e" [] c = "F" -> "f" [] c = "G" -> "g" [] c = "H" -> "h"
           [] c = "I" -> "i" [] c = "J" -> "j" [] c = "K" -> "k" [] c = "L" -> "l"
           [] c = "M" -> "m" [] c = "N" -> "n" [] c = "O" -> "o" [] c = "P" -> "p"
           [] c = "Q" -> "q" [] c = "R" -> "r" [] c = "S" -> "s" [] c = "T" -> "t"
           [] c = "U" -> "u" [] c = "V" -> "v" [] c = "W" -> "w" [] c = "X" -> "x"
           [] c = "Y" -> "y" [] c = "Z" -> "z"

RECURSIVE LowerRange(_, _, _)
LowerRange(s, lo, hi) ==
    IF lo > hi THEN ""
    ELSE IF lo = hi THEN LowerChar(At(s, lo))
    ELSE LET mid == (lo + hi) \div 2
         IN  LowerRange(s, lo, mid) \o LowerRange(s, mid + 1, hi)

(* str.lower() *)
Lower(s) == LowerRange(s, 1, Len(s))

(* p in s *)
Contains(s, p) ==
    LET n == Len(p)
        first == At(p, 1)
    IN  \/ n = 0
        \/ \E i \in 1..(Len(s) - n + 1) :
              At(s, i) = first /\ SubSeq(s, i, i + n - 1) = p

(* s.startswith(p) *)
StartsWith(s, p) == Len(p) <= Len(s) /\ SubSeq(s, 1, Len(p)) = p

(* the whitespace of str.split(), str.strip() and \s *)
IsSpace(c) == c \in {" ", "\t", "\n", "\r", "\f"}

(* the elements of a set of positions, ascending *)
RECURSIVE Ascending(_, _, _)
Ascending(S, lo, hi) ==
    IF lo > hi THEN <<>>
    ELSE IF lo = hi THEN (IF lo \in S THEN <<lo>> ELSE <<>>)
    ELSE LET mid == (lo + hi) \div 2
         IN  Ascending(S, lo, mid) \o Ascending(S, mid + 1, hi)

(* where the word that starts at st ends *)
WordEnd(s, st) ==
    CHOOSE e \in st..Len(s) :
        /\ e = Len(s) \/ IsSpace(At(s, e + 1))
        /\ \A k \in st..e : ~IsSpace(At(s, k))

(* s.split(): the maximal runs of non-whitespace characters, in order *)
Split(s) ==
    LET starts == {i \in 1..Len(s) :
                      ~IsSpace(At(s, i)) /\ (i = 1 \/ IsSpace(At(s, i - 1)))}
        st == Ascending(starts, 1, Len(s))
    IN  [k \in 1..Len(st) |-> SubSeq(s, st[k], WordEnd(s, st[k]))]

(* the pieces of s between the separators, given where each separator
   starts and how long it is: a piece begins at 1 and after each separator *)
PieceEnd(s, seps, b) ==
    IF \A k \in b..Len(s) : k \notin seps THEN Len(s)
    ELSE (CHOOSE e \in b..Len(s) : e \in seps /\ \A k \in b..(e - 1) : k \notin seps) - 1

Pieces(s, seps, begins) ==
    LET bs == Ascending(begins, 1, Len(s) + 1)
    IN  [k \in 1..Len(bs) |-> SubSeq(s, bs[k], PieceEnd(s, seps, bs[k]))]

IsTerminator(c) == c \in {".", "!", "?"}

(* re.split(r'[.!?]+', s): a separator is a maximal run of terminators *)
ReSplitSentences(s) ==
    LET seps == {i \in 1..Len(s) : IsTerminator(At(s, i))}
        begins == {1} \cup {i + 1 : i \in {j \in seps : j = Len(s) \/ ~IsTerminator(At(s, j + 1))}}
    IN  Pieces(s, seps, begins)

(* s.split('\n') *)
SplitLines(s) ==
    LET seps == {i \in 1..Len(s) : At(s, i) = "\n"}
    IN  Pieces(s, seps, {1} \cup {i + 1 : i \in seps})

(* where a maximal run of newlines that covers position i starts *)
RunStart(s, i) ==
    CHOOSE b \in 1..i :
        /\ \A k \in b..i : At(s, k) = "\n"
        /\ b = 1 \/ At(s, b - 1) # "\n"

(* s.split('\n\n'): separators are found left to right and do not overlap,
   so in a run of newlines they start at its 1st, 3rd, 5th ... character *)
SplitParagraphs(s) ==
    LET seps == {i \in 1..(Len(s) - 1) :
                    /\ At(s, i) = "\n" /\ At(s, i + 1) = "\n"
                    /\ (i - RunStart(s, i)) % 2 = 0}
        covered == seps \cup {i + 1 : i \in seps}
    IN  Pieces(s, covered, {1} \cup {i + 2 : i \in seps})

(* len(s.strip()) > 0 *)
NonBlank(s) == \E i \in 1..Len(s) : ~IsSpace(At(s, i))

Range(f) == {f[i] : i \in DOMAIN f}

(* sum(1 for p in phrases if p.lower() in text) *)
CountIn(phrases, text) ==
    Cardinality({i \in DOMAIN phrases : LET p == Lower(phrases[i]) IN Contains(text, p)})

RECURSIVE SumRange(_, _, _)
SumRange(q, lo, hi) ==
    IF lo > hi THEN 0
    ELSE IF lo = hi THEN q[lo]
    ELSE LET mid == (lo + hi) \div 2
         IN  SumRange(q, lo, mid) + SumRange(q, mid + 1, hi)

(* sum(q) *)
Sum(q) == SumRange(q, 1, Len(q))

(***************************************************************************)
(* ResponseAnalyzer.                                                       *)
(***************************************************************************)
TaskType ==
    {"idea_generation", "proposal_writing", "experiment_design", "paper_writing",
     "literature_review", "code_generation", "problem_solving", "summarization"}

(* the keys of the scores dict, in insertion order *)
Aspects ==
    <<"relevance", "completeness", "clarity", "structure",
      "depth", "accuracy", "creativity", "coherence">>

relevance_keywords(t) ==
    CASE t = "idea_generation" -> <<"idea", "concept", "innovation", "approach", "solution">>
      [] t = "proposal_writing" -> <<"objective", "methodology", "timeline", "budget", "outcome">>
      [] t = "experiment_design" -> <<"hypothesis", "method", "control", "variable", "measurement">>
      [] t = "paper_writing" -> <<"abstract", "introduction", "conclusion", "reference", "analysis">>
      [] t = "literature_review" -> <<"review", "study", "research", "finding", "paper">>
      [] t = "code_generation" -> <<"function", "class", "import", "return", "def">>
      [] t = "problem_solving" -> <<"solution", "step", "answer", "result", "approach">>
      [] t = "summarization" -> <<"summary", "main", "key", "point", "conclusion">>
      [] OTHER -> <<>>

score_relevance(resp, t) ==
    LET keywords == relevance_keywords(t)
        low == Lower(resp)
        found == CountIn(keywords, low)
    IN  IF Len(keywords) = 0 THEN Frac(7, 10)
        ELSE Min(Num(1), Div(Num(found), Num(Len(keywords))))

min_words(t) ==
    CASE t = "idea_generation" -> 200
      [] t = "proposal_writing" -> 500
      [] t = "experiment_design" -> 300
      [] t = "paper_writing" -> 400
      [] t = "literature_review" -> 500
      [] t = "code_generation" -> 50
      [] t = "problem_solving" -> 100
      [] t = "summarization" -> 150
      [] OTHER -> 200

score_completeness_uncapped(resp, t) ==
    Div(Num(Len(Split(resp))), Num(min_words(t)))

score_completeness(resp, t) ==
    LET expected == min_words(t)
        actual == Len(Split(resp))
    IN  IF actual >= expected THEN Num(1)
        ELSE Div(Num(actual), Num(expected))

(* the sentences _score_clarity keeps: the pieces that are not blank *)
ClaritySentences(resp) == SelectSeq(ReSplitSentences(resp), NonBlank)

score_clarity(resp) ==
    LET sentences == ClaritySentences(resp)
        lens == [i \in DOMAIN sentences |-> Len(Split(sentences[i]))]
        avg_length == Div(Num(Sum(lens)), Num(Len(sentences)))
    IN  IF Len(sentences) = 0 THEN Frac(5, 10)
        ELSE IF IsErr(avg_length) THEN avg_length
        ELSE IF Le(Num(15), avg_length) /\ Le(avg_length, Num(20)) THEN Num(1)
        ELSE IF Le(Num(10), avg_length) /\ Le(avg_length, Num(25)) THEN Frac(8, 10)
        ELSE IF Lt(avg_length, Num(10)) THEN Frac(6, 10)
        ELSE Frac(5, 10)

IsDigit(c) == c \in {"0", "1", "2", "3", "4", "5", "6", "7", "8", "9"}

(* re.match(r'^\s*[\d\-\*\<bullet>]', line); the bullet U+2022 is outside the
   ASCII alphabet of the modelled texts *)
IsListLine(line) ==
    \E i \in 1..Len(line) :
        /\ IsDigit(At(line, i)) \/ At(line, i) \in {"-", "*"}
        /\ \A k \in 1..(i - 1) : IsSpace(At(line, k))

score_structure_heavier_lists(resp) ==
    LET lines == SplitLines(resp)
        has_paragraphs == Len(SplitParagraphs(resp)) > 1
        has_sections == \E i \in DOMAIN lines : StartsWith(lines[i], "#")
        has_lists == \E i \in DOMAIN lines : IsListLine(lines[i])
        has_formatting == Contains(resp, "**") \/ Contains(resp, "__") \/ Contains(resp, "*")
    IN  Add(Add(IF has_paragraphs THEN Frac(3, 10) ELSE Num(0),
                IF has_sections THEN Frac(3, 10) ELSE Num(0)),
            Add(IF has_lists THEN Frac(3, 10) ELSE Num(0),
                IF has_formatting THEN Frac(2, 10) ELSE Num(0)))

score_structure(resp) ==
    LET lines == SplitLines(resp)
        has_paragraphs == Len(SplitParagraphs(resp)) > 1
        has_sections == \E i \in DOMAIN lines : StartsWith(lines[i], "#")
        has_lists == \E i \in DOMAIN lines : IsListLine(lines[i])
        has_formatting == Contains(resp, "**") \/ Contains(resp, "__") \/ Contains(resp, "*")
    IN  Add(Add(IF has_paragraphs THEN Frac(3, 10) ELSE Num(0),
                IF has_sections THEN Frac(3, 10) ELSE Num(0)),
            Add(IF has_lists THEN Frac(2, 10) ELSE Num(0),
                IF has_formatting THEN Frac(2, 10) ELSE Num(0)))

detail_indicators ==
    <<"for example", "such as", "specifically", "in particular",
      "furthermore", "additionally", "moreover", "therefore",
      "because", "due to", "as a result", "consequently">>

technical_terms ==
    <<"algorithm", "methodology", "framework", "architecture",
      "implementation", "optimization", "evaluation", "analysis",
      "hypothesis", "validation", "correlation", "distribution">>

score_depth(resp) ==
    LET low == Lower(resp)
        detail_count == CountIn(detail_indicators, low)
        technical_count == CountIn(technical_terms, low)
    IN  Min(Num(1), Div(Num(detail_count + technical_count), Num(10)))

filler_phrases ==
    <<"i don't know", "i'm not sure", "i cannot", "unable to",
      "no information", "cannot provide", "don't have">>

score_accuracy_at_half(resp, t) ==
    LET lines == SplitLines(resp)
        unique_lines == Range(lines)
        low == Lower(resp)
        has_filler == \E i \in DOMAIN filler_phrases : Contains(low, filler_phrases[i])
    IN  IF 2 * Cardinality(unique_lines) <= Len(lines) THEN Frac(3, 10)
        ELSE IF has_filler THEN Frac(5, 10)
        ELSE Frac(8, 10)

score_accuracy_hedging_first(resp, t) ==
    LET lines == SplitLines(resp)
        unique_lines == Range(lines)
        low == Lower(resp)
        has_filler == \E i \in DOMAIN filler_phrases : Contains(low, filler_phrases[i])
    IN  IF has_filler THEN Frac(5, 10)
        ELSE IF 2 * Cardinality(unique_lines) < Len(lines) THEN Frac(3, 10)
        ELSE Frac(8, 10)

score_accuracy(resp, t) ==
    LET lines == SplitLines(resp)
        unique_lines == Range(lines)
        low == Lower(resp)
        has_filler == \E i \in DOMAIN filler_phrases : Contains(low, filler_phrases[i])
    IN  IF 2 * Cardinality(unique_lines) < Len(lines) THEN Frac(3, 10)
        ELSE IF has_filler THEN Frac(5, 10)
        ELSE Frac(8, 10)

creative_words ==
    <<"innovative", "novel", "unique", "creative", "original",
      "breakthrough", "revolutionary", "pioneering", "cutting-edge",
      "unprecedented", "groundbreaking", "ingenious">>

(* len(unique_words) / len(words), without the guard for no words *)
vocabulary_diversity_unguarded(words) ==
    Div(Num(Cardinality(Range(words))), Num(Len(words)))

(* len(unique_words) / len(words) if words else 0 *)
vocabulary_diversity(words) ==
    IF Len(words) # 0 THEN Div(Num(Cardinality(Range(words))), Num(Len(words)))
    ELSE Num(0)

(* score_creativity without the min(1.0, ...) cap *)
score_creativity_uncapped(resp, t) ==
    LET low == Lower(resp)
        creative_count == CountIn(creative_words, low)
        words == Split(low)
    IN  IF t \notin {"idea_generation", "problem_solving"} THEN Frac(7, 10)
        ELSE Add(Mul(Div(Num(creative_count), Num(5)), Frac(5, 10)),
                 Mul(vocabulary_diversity(words), Frac(5, 10)))

score_creativity(resp, t) ==
    LET low == Lower(resp)
        creative_count == CountIn(creative_words, low)
        words == Split(low)
    IN  IF t \notin {"idea_generation", "problem_solving"} THEN Frac(7, 10)
        ELSE Min(Num(1),
                 Add(Mul(Div(Num(creative_count), Num(5)), Frac(5, 10)),
                     Mul(vocabulary_diversity(words), Frac(5, 10))))

transitions ==
    <<"first", "second", "third", "finally", "however",
      "therefore", "thus", "moreover", "furthermore",
      "in addition", "consequently", "as a result",
      "on the other hand", "in contrast", "similarly">>

score_coherence(resp) ==
    LET low == Lower(resp)
        transition_count == CountIn(transitions, low)
        paragraphs == SplitParagraphs(resp)
    IN  IF Len(paragraphs) > 1
        THEN Min(Num(1), Add(Frac(5, 10), Div(Num(transition_count), Num(8))))
        ELSE Frac(6, 10)

(* the scores dict of analyze *)
Scores(resp, t) ==
    [a \in Range(Aspects) |->
        CASE a = "relevance" -> score_relevance(resp, t)
          [] a = "completeness" -> score_completeness(resp, t)
          [] a = "clarity" -> score_clarity(resp)
          [] a = "structure" -> score_structure(resp)
          [] a = "depth" -> score_depth(resp)
          [] a = "accuracy" -> score_accuracy(resp, t)
          [] a = "creativity" -> score_creativity(resp, t)
          [] a = "coherence" -> score_coherence(resp)]

(* max(1, n) *)
Max1(n) == IF n >= 1 THEN n ELSE 1

(* the metrics block of analyze *)
Metrics(resp, elapsed, ups) ==
    LET word_count == Len(Split(resp))
        sentence_count == Len(ReSplitSentences(resp))
    IN
    [response_length |-> Len(resp),
     word_count |-> word_count,
     sentence_count |-> sentence_count,
     paragraph_count |-> Len(SplitParagraphs(resp)),
     execution_time |-> Round2(elapsed, "execution_time" \in ups),
     avg_sentence_length |->
         Div(Num(word_count), Num(Max1(sentence_count)))]

weights ==
    [a \in Range(Aspects) |->
        CASE a = "relevance" -> Frac(20, 100)
          [] a = "completeness" -> Frac(20, 100)
          [] a = "clarity" -> Frac(15, 100)
          [] a = "structure" -> Frac(10, 100)
          [] a = "depth" -> Frac(15, 100)
          [] a = "accuracy" -> Frac(10, 100)
          [] a = "creativity" -> Frac(5, 100)
          [] a = "coherence" -> Frac(5, 100)]

RECURSIVE WeightedSum(_, _)
WeightedSum(scores, k) ==
    IF k = 0 THEN Num(0)
    ELSE Add(WeightedSum(scores, k - 1), Mul(scores[Aspects[k]], weights[Aspects[k]]))

OverallScore_without_coherence(scores) ==
    Mul(WeightedSum(scores, Len(Aspects) - 1), Num(100))

(* sum(scores[k] * weights[k] for k in scores) * 100 *)
OverallScore(scores) == Mul(WeightedSum(scores, Len(Aspects)), Num(100))

Grade(overall_score) ==
    IF Ge(overall_score, Num(90)) THEN "A"
    ELSE IF Ge(overall_score, Num(80)) THEN "B"
    ELSE IF Ge(overall_score, Num(70)) THEN "C"
    ELSE IF Ge(overall_score, Num(60)) THEN "D"
    ELSE "F"

IsStrength_above(score) == Lt(Frac(8, 10), score)

IsStrength(score) == Ge(score, Frac(8, 10))

IsWeakness(score) == ~Ge(score, Frac(8, 10)) /\ Lt(score, Frac(5, 10))

Strengths(scores) ==
    LET idx == Ascending({i \in DOMAIN Aspects : IsStrength(scores[Aspects[i]])}, 1, Len(Aspects))
    IN  [k \in 1..Len(idx) |-> "Excellent " \o Aspects[idx[k]]]

Weaknesses(scores) ==
    LET idx == Ascending({i \in DOMAIN Aspects : IsWeakness(scores[Aspects[i]])}, 1, Len(Aspects))
    IN  [k \in 1..Len(idx) |-> "Poor " \o Aspects[idx[k]]]

(* the code-fence marker (three backquotes in the code; a TLA+ string cannot
   hold a backquote, so the tilde stands for it in the modelled texts) *)
CodeFence == "~~~"

RecommendationRules_creative_kinds(scores, t) ==
    << <<Lt(scores["relevance"], Frac(6, 10)),
         "Improve relevance by focusing more directly on the task requirements">>,
       <<Lt(scores["completeness"], Frac(7, 10)),
         "Provide more comprehensive and detailed responses">>,
       <<Lt(scores["clarity"], Frac(7, 10)),
         "Enhance clarity by using simpler sentence structures">>,
       <<Lt(scores["structure"], Frac(6, 10)),
         "Improve organization with clear sections and formatting">>,
       <<Lt(scores["depth"], Frac(6, 10)),
         "Add more depth with examples and detailed explanations">>,
       <<Lt(scores["coherence"], Frac(6, 10)),
         "Improve logical flow with better transitions between ideas">>,
       <<t \in {"idea_generation", "problem_solving"} /\ Lt(scores["creativity"], Frac(6, 10)),
         "Enhance creativity with more innovative and unique ideas">>,
       <<t = "code_generation" /\ CodeFence \notin DOMAIN scores,
         "Use proper code formatting with syntax highlighting">> >>

(* the rule table of _generate_recommendations, in the order of the code:
   each rule is <<whether it fires, the advice>> *)
RecommendationRules(scores, t) ==
    << <<Lt(scores["relevance"], Frac(6, 10)),
         "Improve relevance by focusing more directly on the task requirements">>,
       <<Lt(scores["completeness"], Frac(7, 10)),
         "Provide more comprehensive and detailed responses">>,
       <<Lt(scores["clarity"], Frac(7, 10)),
         "Enhance clarity by using simpler sentence structures">>,
       <<Lt(scores["structure"], Frac(6, 10)),
         "Improve organization with clear sections and formatting">>,
       <<Lt(scores["depth"], Frac(6, 10)),
         "Add more depth with examples and detailed explanations">>,
       <<Lt(scores["coherence"], Frac(6, 10)),
         "Improve logical flow with better transitions between ideas">>,
       <<t = "idea_generation" /\ Lt(scores["creativity"], Frac(6, 10)),
         "Enhance creativity with more innovative and unique ideas">>,
       <<t = "code_generation" /\ CodeFence \notin DOMAIN scores,
         "Use proper code formatting with syntax highlighting">> >>

generate_recommendations_without_formatting(scores, t) ==
    LET rules == SubSeq(RecommendationRules(scores, t), 1, 7)
        idx == Ascending({i \in DOMAIN rules : rules[i][1]}, 1, Len(rules))
    IN  [k \in 1..Len(idx) |-> rules[idx[k]][2]]

generate_recommendations(scores, t) ==
    LET rules == RecommendationRules(scores, t)
        idx == Ascending({i \in DOMAIN rules : rules[i][1]}, 1, Len(rules))
    IN  [k \in 1..Len(idx) |-> rules[idx[k]][2]]

(* the values analyze rounds to two decimals *)
Rounded(scores, elapsed) ==
    [site \in Range(Aspects) \cup {"overall_score", "execution_time"} |->
        IF site = "overall_score" THEN OverallScore(scores)
        ELSE IF site = "execution_time" THEN elapsed
        ELSE Mul(scores[site], Num(100))]

(* the roundings of one call that are exact ties *)
TieSites(scores, elapsed) ==
    LET rounded == Rounded(scores, elapsed)
    IN  {site \in DOMAIN rounded : IsTie(rounded[site])}

(* ResponseAnalyzer.analyze: every outcome of the call (one, unless a
   rounding is an exact tie): the AnalysisResult it returns, or the exception
   a sub-scorer or the metrics block raised.  scores (the sub-scores before
   the x100 projection) and ties (the roundings that were exact ties) are
   kept for the properties: they are not fields of AnalysisResult. *)
analyze(resp, t, elapsed) ==
    LET scores == Scores(resp, t)
        overall_score == OverallScore(scores)
        ties == TieSites(scores, elapsed)
        metrics == Metrics(resp, elapsed, {})
        strengths == Strengths(scores)
        weaknesses == Weaknesses(scores)
        recommendations == generate_recommendations(scores, t)
    IN  IF \/ \E a \in DOMAIN scores : IsErr(scores[a])
           \/ IsErr(metrics.avg_sentence_length)
        THEN {[raised |-> "ZeroDivisionError"]}
        ELSE {[raised |-> "",
               overall_score |-> Round2(overall_score, "overall_score" \in ups),
               grade |-> Grade(overall_score),
               metrics |-> [metrics EXCEPT !.execution_time = Round2(elapsed, "execution_time" \in ups)],
               strengths |-> strengths,
               weaknesses |-> weaknesses,
               recommendations |-> recommendations,
               detailed_scores |-> [a \in DOMAIN scores |-> Round2(Mul(scores[a], Num(100)), a \in ups)],
               scores |-> scores,
               ties |-> ties] : ups \in SUBSET ties}

(***************************************************************************)
(* The response texts and the elapsed times analyze is called with.        *)
(***************************************************************************)
MaxParts == 3

TextParts == <<" ", "\n", ".", "step", "Idea", "#", "*">>

RECURSIVE Repeat(_, _)
Repeat(s, n) ==
    IF n <= 0 THEN ""
    ELSE IF n = 1 THEN s
    ELSE Repeat(s, n \div 2) \o Repeat(s, n - n \div 2)

RECURSIVE Concat(_)
Concat(parts) == IF Len(parts) = 0 THEN "" ELSE Head(parts) \o Concat(Tail(parts))

RECURSIVE SeqsUpTo(_, _)
SeqsUpTo(S, n) ==
    IF n = 0 THEN {<<>>}
    ELSE LET shorter == SeqsUpTo(S, n - 1)
         IN  shorter \cup {Append(q, x) : q \in shorter, x \in S}

(* every text made of at most MaxParts pieces *)
ShortTexts == {Concat(parts) : parts \in SeqsUpTo(Range(TextParts), MaxParts)}

(* longer responses: a short structured answer, and a list of buzzwords *)
StructuredTexts ==
    {"# Answer\n\n- Step one: *original* approach.\n- However, the result. Therefore solution, moreover.",
     "innovative novel unique creative original breakthrough",
     "Intro paragraph.\n\n- item one\n- item two",
     "Intro paragraph.\n\n1. item one",
     "I cannot say.\nI cannot say.\nI cannot say.",
     "I'm not sure.",
     CodeFence \o "\ndef f(): return 1\n" \o CodeFence}

(* the numbers of words of the long responses: around the minimum of
   code_generation and in each bucket of the sentence length *)
WordCounts == {12, 16, 22, 25, 26, 50, 51}

LongTexts == {Repeat("word ", n) : n \in WordCounts}

SampleTexts == StructuredTexts \cup LongTexts

Texts == ShortTexts \cup SampleTexts

(* elapsed seconds *)
ElapsedTimes == {Num(0), Frac(1234567, 1000000)}

NoReport == [raised |-> "not called"]

NoRequest == [agent_type |-> "none"]

AnalyzerIdle ==
    /\ response = ""
    /\ task_type = "summarization"
    /\ execution_time = Num(0)
    /\ apc = "idle"
    /\ report = NoReport

DispatcherIdle ==
    /\ request = NoRequest
    /\ dpc = "idle"
    /\ net = <<>>
    /\ outcome = [kind |-> "none"]

(* no request of /api/test has been made and nothing is stored *)
NoListing == [called |-> FALSE, limit |-> 0, total_tests |-> 0, results |-> <<>>]

PlatformIdle ==
    /\ test_results = <<>>
    /\ agent_profiles = <<>>
    /\ calls = <<>>
    /\ finished = <<>>
    /\ listing = NoListing

(* task_store = {} and no background task *)
TaskStoreIdle ==
    /\ task_store = <<>>
    /\ background = <<>>
    /\ db = <<>>

AnalyzerInit ==
    /\ response \in Texts
    /\ task_type \in TaskType
    /\ execution_time \in ElapsedTimes
    /\ apc = "call"
    /\ report = NoReport
    /\ DispatcherIdle
    /\ PlatformIdle
    /\ TaskStoreIdle

(* ResponseAnalyzer.analyze(response, task_type, execution_time) *)
Analyze ==
    /\ apc = "call"
    /\ report' \in analyze(response, task_type, execution_time)
    /\ apc' = IF report'.raised = "" THEN "returned" ELSE "raised"
    /\ UNCHANGED <<response, task_type, execution_time>>
    /\ UNCHANGED <<dvars, pvars, tvars>>

AnalyzerNext == Analyze

SpecAnalyzer == AnalyzerInit /\ [][AnalyzerNext]_vars

(***************************************************************************)
(* Claims about ResponseAnalyzer.analyze, checked under SpecAnalyzer.      *)
(***************************************************************************)
InUnit(x) == ~IsErr(x) /\ Le(Num(0), x) /\ Le(x, Num(1))

InPercent(x) == ~IsErr(x) /\ Le(Num(0), x) /\ Le(x, Num(100))

(* C1: every report analyze returns has eight sub-scores in [0, 1] before
   the x100 projection, eight detailed_scores in [0, 100] and an
   overall_score in [0, 100], whatever the text, the task kind and the
   elapsed time. *)
C1_ScoresInRange ==
    apc = "returned" =>
        /\ DOMAIN report.scores = Range(Aspects)
        /\ DOMAIN report.detailed_scores = Range(Aspects)
        /\ \A a \in Range(Aspects) :
              InUnit(report.scores[a]) /\ InPercent(report.detailed_scores[a])
        /\ InPercent(report.overall_score)

(* a report in which one sub-score sits at the top of the range and another
   at the bottom *)
C1_Witness ==
    /\ apc = "returned"
    /\ \E a \in Range(Aspects) : report.scores[a] = Num(1)
    /\ \E a \in Range(Aspects) : report.scores[a] = Num(0)

(* C2: in every report the grade is the one the thresholds A >= 90, B >= 80,
   C >= 70, D >= 60, else F assign to the report's own overall_score field
   (the rounded value).  Stated for the calls whose overall score is not an
   exact rounding tie, where the rounded value is certain. *)
C2_GradeMatchesReportedScore ==
    (apc = "returned" /\ "overall_score" \notin report.ties) =>
        report.grade = Grade(report.overall_score)

Grades == {"A", "B", "C", "D", "F"}

WellFormed(r) ==
    /\ r.raised = ""
    /\ InPercent(r.overall_score)
    /\ r.grade \in Grades
    /\ r.metrics.response_length >= 0
    /\ r.metrics.word_count >= 0
    /\ r.metrics.sentence_count >= 0
    /\ r.metrics.paragraph_count >= 0
    /\ ~IsErr(r.metrics.execution_time)
    /\ ~IsErr(r.metrics.avg_sentence_length)
    /\ DOMAIN r.detailed_scores = Range(Aspects)
    /\ \A a \in Range(Aspects) : ~IsErr(r.detailed_scores[a])
    /\ Len(r.strengths) + Len(r.weaknesses) <= Len(Aspects)
    /\ Len(r.recommendations) <= 8

(* C3: analyze is total: no call raises (no division by zero in a
   sub-scorer or in the metrics block), and what a call returns is a
   well-formed report; this includes the empty text, whitespace-only text
   and text without a sentence terminator. *)
C3_AnalyzeTotal ==
    /\ apc \in {"call", "returned"}
    /\ apc = "returned" => WellFormed(report)

(* analyze has returned for a whitespace-only text under a task kind whose
   creativity score divides by the number of words *)
C3_Witness ==
    /\ apc = "returned"
    /\ Len(response) > 0
    /\ ~NonBlank(response)
    /\ task_type = "idea_generation"
    /\ report.scores["creativity"] = Num(0)

(* C4: analyze("", task_kind, 0) returns a report with word_count = 0,
   sentence_count = 0 and clarity 0.5. *)
C4_EmptyTextReport ==
    (apc = "returned" /\ response = "" /\ execution_time = Num(0)) =>
        /\ report.metrics.word_count = 0
        /\ report.metrics.sentence_count = 0
        /\ report.scores["clarity"] = Frac(5, 10)

(***************************************************************************)
(* AgentConnector.                                                         *)
(*                                                                         *)
(* Optional values: None is <<>>, a present value x is <<x>>.  A JSON      *)
(* value is a record [t, s, n, items]: t is its type, s the string, n the  *)
(* number, items the elements of a list or the members [k, v] of an object *)
(* in document order.  An exception is a record [type, message], message   *)
(* being str(e).                                                           *)
(***************************************************************************)
None == <<>>

Some(x) == <<x>>

JStr(s) == [t |-> "str", s |-> s, n |-> 0, items |-> <<>>]

JNum(n) == [t |-> "num", s |-> "", n |-> n, items |-> <<>>]

JNull == [t |-> "null", s |-> "", n |-> 0, items |-> <<>>]

JList(items) == [t |-> "list", s |-> "", n |-> 0, items |-> items]

JObj(members) == [t |-> "obj", s |-> "", n |-> 0, items |-> members]

(* what response.json() gives for a body that is not JSON *)
JInvalid == [t |-> "invalid", s |-> "", n |-> 0, items |-> <<>>]

Member(k, v) == [k |-> k, v |-> v]

HasKey(obj, key) == \E i \in DOMAIN obj.items : obj.items[i].k = key

ValueOf(obj, key) == obj.items[CHOOSE i \in DOMAIN obj.items : obj.items[i].k = key].v

Raise(type, message) == [ok |-> FALSE, type |-> type, message |-> message]

Return(v) == [ok |-> TRUE, v |-> v]

TypeName(v) ==
    CASE v.t = "str" -> "str" [] v.t = "num" -> "int" [] v.t = "null" -> "NoneType"
      [] v.t = "list" -> "list" [] v.t = "obj" -> "dict"

(* v[key] for a string key *)
SubscriptKey(v, key) ==
    CASE v.t = "obj" ->
            IF HasKey(v, key) THEN Return(ValueOf(v, key))
            ELSE Raise("KeyError", "'" \o key \o "'")
      [] v.t = "list" ->
            Raise("TypeError", "list indices must be integers or slices, not str")
      [] v.t = "str" ->
            Raise("TypeError", "string indices must be integers, not 'str'")
      [] OTHER ->
            Raise("TypeError", "'" \o TypeName(v) \o "' object is not subscriptable")

(* v[0] *)
SubscriptZero(v) ==
    CASE v.t = "list" ->
            IF Len(v.items) > 0 THEN Return(v.items[1])
            ELSE Raise("IndexError", "list index out of range")
      [] v.t = "obj" -> Raise("KeyError", "0")
      [] v.t = "str" ->
            IF Len(v.s) > 0 THEN Return(JStr(At(v.s, 1)))
            ELSE Raise("IndexError", "string index out of range")
      [] OTHER ->
            Raise("TypeError", "'" \o TypeName(v) \o "' object is not subscriptable")

(* repr(v) and str(v) of a parsed JSON value *)
RECURSIVE Repr(_)
RECURSIVE JoinRepr(_, _, _)
JoinRepr(items, i, isObj) ==
    IF i > Len(items) THEN ""
    ELSE (IF i > 1 THEN ", " ELSE "")
         \o (IF isObj THEN "'" \o items[i].k \o "': " \o Repr(items[i].v) ELSE Repr(items[i]))
         \o JoinRepr(items, i + 1, isObj)

Repr(v) ==
    CASE v.t = "str" -> "'" \o v.s \o "'"
      [] v.t = "num" -> ToString(v.n)
      [] v.t = "null" -> "None"
      [] v.t = "list" -> "[" \o JoinRepr(v.items, 1, FALSE) \o "]"
      [] v.t = "obj" -> "{" \o JoinRepr(v.items, 1, TRUE) \o "}"

Str(v) == IF v.t = "str" THEN v.s ELSE Repr(v)

(* the text of the body whose parse is v *)
RECURSIVE Dumps(_)
RECURSIVE JoinDumps(_, _, _)
JoinDumps(items, i, isObj) ==
    IF i > Len(items) THEN ""
    ELSE (IF i > 1 THEN ", " ELSE "")
         \o (IF isObj THEN "\"" \o items[i].k \o "\": " \o Dumps(items[i].v) ELSE Dumps(items[i]))
         \o JoinDumps(items, i + 1, isObj)

Dumps(v) ==
    CASE v.t = "str" -> "\"" \o v.s \o "\""
      [] v.t = "num" -> ToString(v.n)
      [] v.t = "null" -> "null"
      [] v.t = "list" -> "[" \o JoinDumps(v.items, 1, FALSE) \o "]"
      [] v.t = "obj" -> "{" \o JoinDumps(v.items, 1, TRUE) \o "}"
      [] v.t = "invalid" -> "<html>Bad gateway</html>"

(* response.json() *)
ResponseJson(resp) ==
    IF resp.json.t = "invalid"
    THEN Raise("JSONDecodeError", "Expecting value: line 1 column 1 (char 0)")
    ELSE Return(resp.json)

create_prompt(t, test_input) ==
    CASE t = "idea_generation" -> "Generate 5 innovative research ideas for: " \o test_input
      [] t = "proposal_writing" -> "Write a research proposal for: " \o test_input
      [] t = "experiment_design" -> "Design an experiment to test: " \o test_input
      [] t = "paper_writing" -> "Write an introduction section for a paper on: " \o test_input
      [] t = "literature_review" -> "Provide a literature review on: " \o test_input
      [] t = "code_generation" -> "Write code to implement: " \o test_input
      [] t = "problem_solving" -> "Solve this problem: " \o test_input
      [] t = "summarization" -> "Summarize the following: " \o test_input
      [] OTHER -> test_input

(* x or default, on strings *)
Or(x, default) == IF x # "" THEN x ELSE default

(* f"{api_key}" *)
FormatKey(api_key) == IF api_key = None THEN "None" ELSE api_key[1]

JFloat(num, den) == [t |-> "float", s |-> "", n |-> 0, items |-> <<num, den>>]

Messages(prompt) ==
    JList(<<JObj(<<Member("role", JStr("user")), Member("content", JStr(prompt))>>)>>)

(* r[key] and r[0] where r did not raise, and r where it did *)
KeyOf(r, key) == IF r.ok THEN SubscriptKey(r.v, key) ELSE r

ZeroOf(r) == IF r.ok THEN SubscriptZero(r.v) ELSE r

(***************************************************************************)
(* The call each provider function hands to its client: client.post(url,   *)
(* headers, json), or generate_content(prompt) of the google SDK.  refused *)
(* is the message of the error the client raises without sending anything  *)
(* (a URL without scheme, a header value that is None), "" when it sends.  *)
(* timeout is the timeout the client was created with, in seconds, None    *)
(* when the code sets none.                                                *)
(***************************************************************************)
MissingProtocol == "Request URL is missing an 'http://' or 'https://' protocol."

openai_request(prompt, endpoint, api_key) ==
    [via |-> "httpx",
     url |-> Or(endpoint, "https://api.openai.com/v1/chat/completions"),
     headers |-> <<Member("Authorization", "Bearer " \o FormatKey(api_key)),
                   Member("Content-Type", "application/json")>>,
     json |-> JObj(<<Member("model", JStr("gpt-3.5-turbo")),
                     Member("messages", Messages(prompt)),
                     Member("max_tokens", JNum(2000)),
                     Member("temperature", JFloat(7, 10))>>),
     timeout |-> Some(60),
     refused |-> ""]

anthropic_request(prompt, endpoint, api_key) ==
    [via |-> "httpx",
     url |-> Or(endpoint, "https://api.anthropic.com/v1/messages"),
     headers |-> <<Member("x-api-key", api_key),
                   Member("anthropic-version", "2023-06-01"),
                   Member("Content-Type", "application/json")>>,
     json |-> JObj(<<Member("model", JStr("claude-3-sonnet-20240229")),
                     Member("messages", Messages(prompt)),
                     Member("max_tokens", JNum(2000))>>),
     timeout |-> Some(60),
     refused |-> IF api_key = None THEN "Header value must be str or bytes, not <class 'NoneType'>"
                 ELSE ""]

google_request(prompt, endpoint, api_key) ==
    [via |-> "google.generativeai",
     url |-> "gemini-2.5-flash",
     headers |-> <<Member("api_key", api_key)>>,
     json |-> JStr(prompt),
     timeout |-> None,
     refused |-> ""]

huggingface_request(prompt, endpoint, api_key) ==
    [via |-> "httpx",
     url |-> endpoint,
     headers |-> <<Member("Authorization", "Bearer " \o FormatKey(api_key)),
                   Member("Content-Type", "application/json")>>,
     json |-> JObj(<<Member("inputs", JStr(prompt))>>),
     timeout |-> Some(60),
     refused |-> IF endpoint = "" THEN MissingProtocol ELSE ""]

(* {"prompt": p, "input": p, "query": p, **parameters}: a key of parameters
   replaces the value of an earlier equal key and keeps its place *)
RECURSIVE Splat(_, _)
Splat(base, extra) ==
    IF Len(extra) = 0 THEN base
    ELSE LET m == Head(extra)
             merged == IF \E i \in DOMAIN base : base[i].k = m.k
                       THEN [i \in DOMAIN base |-> IF base[i].k = m.k THEN m ELSE base[i]]
                       ELSE Append(base, m)
         IN  Splat(merged, Tail(extra))

custom_request(prompt, endpoint, api_key, parameters) ==
    [via |-> "httpx",
     url |-> endpoint,
     headers |-> <<Member("Content-Type", "application/json")>>
                 \o (IF api_key # None /\ api_key[1] # ""
                     THEN <<Member("Authorization", "Bearer " \o api_key[1])>>
                     ELSE <<>>),
     json |-> JObj(Splat(<<Member("prompt", JStr(prompt)), Member("input", JStr(prompt)),
                           Member("query", JStr(prompt))>>,
                         parameters[1])),
     timeout |-> Some(60),
     refused |-> IF endpoint = "" THEN MissingProtocol ELSE ""]

(***************************************************************************)
(* What each provider function makes of the HTTP response                  *)
(* [status, text, json].                                                   *)
(***************************************************************************)
openai_response_without_body(resp) ==
    IF resp.status = 200
    THEN KeyOf(KeyOf(ZeroOf(KeyOf(ResponseJson(resp), "choices")), "message"), "content")
    ELSE Raise("Exception", "API error: " \o ToString(resp.status))

openai_response(resp) ==
    IF resp.status = 200
    THEN KeyOf(KeyOf(ZeroOf(KeyOf(ResponseJson(resp), "choices")), "message"), "content")
    ELSE Raise("Exception", "API error: " \o ToString(resp.status) \o " - " \o resp.text)

anthropic_response(resp) ==
    IF resp.status = 200
    THEN KeyOf(ZeroOf(KeyOf(ResponseJson(resp), "content")), "text")
    ELSE Raise("Exception", "API error: " \o ToString(resp.status) \o " - " \o resp.text)

(* d.get(key, default) on a dict *)
Get(d, key, default) == IF HasKey(d, key) THEN ValueOf(d, key) ELSE default

huggingface_extract_text_first(data) ==
    IF data.t = "list" /\ Len(data.items) > 0
    THEN IF data.items[1].t = "obj"
         THEN Get(data.items[1], "generated_text", JStr(Str(data.items[1])))
         ELSE JStr(Str(data.items[1]))
    ELSE IF data.t = "obj"
         THEN Get(data, "text", Get(data, "generated_text", JStr(Str(data))))
         ELSE JStr(Str(data))

huggingface_extract(data) ==
    IF data.t = "list" /\ Len(data.items) > 0
    THEN IF data.items[1].t = "obj"
         THEN Get(data.items[1], "generated_text", JStr(Str(data.items[1])))
         ELSE JStr(Str(data.items[1]))
    ELSE IF data.t = "obj"
         THEN Get(data, "generated_text", Get(data, "text", JStr(Str(data))))
         ELSE JStr(Str(data))

ModelLoading == "Model is loading, please try again in a few seconds"

huggingface_response_without_503(resp) ==
    IF resp.status = 200
    THEN LET data == ResponseJson(resp)
         IN  IF data.ok THEN Return(huggingface_extract(data.v)) ELSE data
    ELSE Raise("Exception",
               "HuggingFace API error: " \o ToString(resp.status) \o " - " \o resp.text)

huggingface_response(resp) ==
    IF resp.status = 200
    THEN LET data == ResponseJson(resp)
         IN  IF data.ok THEN Return(huggingface_extract(data.v)) ELSE data
    ELSE IF resp.status = 503
         THEN Raise("Exception", ModelLoading)
         ELSE Raise("Exception",
                    "HuggingFace API error: " \o ToString(resp.status) \o " - " \o resp.text)

response_fields == <<"output", "response", "text", "generated_text", "result", "completion">>

(* field in data *)
In(field, data) ==
    CASE data.t = "obj" -> Return(HasKey(data, field))
      [] data.t = "list" ->
            Return(\E i \in DOMAIN data.items :
                      data.items[i].t = "str" /\ data.items[i].s = field)
      [] OTHER ->
            Raise("TypeError", "argument of type '" \o TypeName(data) \o "' is not iterable")

RECURSIVE custom_extract(_, _)
custom_extract(data, i) ==
    IF i > Len(response_fields) THEN Return(JStr(Str(data)))
    ELSE LET found == In(response_fields[i], data)
         IN  IF ~found.ok THEN found
             ELSE IF found.v
                  THEN LET v == SubscriptKey(data, response_fields[i])
                       IN  IF v.ok THEN Return(JStr(Str(v.v))) ELSE v
                  ELSE custom_extract(data, i + 1)

custom_response(resp) ==
    IF resp.status = 200
    THEN LET data == ResponseJson(resp)
         IN  IF ~data.ok THEN data
             ELSE IF data.v.t = "str" THEN Return(data.v) ELSE custom_extract(data.v, 1)
    ELSE Raise("Exception", "API error: " \o ToString(resp.status) \o " - " \o resp.text)

(***************************************************************************)
(* execute_agent.                                                          *)
(***************************************************************************)
ProviderOf_openai_otherwise(agent_type) ==
    IF agent_type \in {"openai", "anthropic", "google", "huggingface"} THEN agent_type
    ELSE "openai"

(* the branch execute_agent takes *)
ProviderOf(agent_type) ==
    IF agent_type \in {"openai", "anthropic", "google", "huggingface"} THEN agent_type
    ELSE "custom"

(* what a provider function does before it calls its client: the exception
   it raises there, if any *)
BeforeCall(provider, req) ==
    CASE provider = "huggingface" /\ req.agent_api_key = None ->
            Raise("TypeError", "'NoneType' object is not subscriptable")
      [] provider = "custom" /\ req.test_parameters = None ->
            Raise("TypeError", "'NoneType' object is not a mapping")
      [] OTHER -> Return(JNull)

RequestOf(provider, req) ==
    LET prompt == create_prompt(req.task_type, req.test_input)
    IN  CASE provider = "openai" -> openai_request(prompt, req.agent_endpoint, req.agent_api_key)
          [] provider = "anthropic" -> anthropic_request(prompt, req.agent_endpoint, req.agent_api_key)
          [] provider = "google" -> google_request(prompt, req.agent_endpoint, req.agent_api_key)
          [] provider = "huggingface" -> huggingface_request(prompt, req.agent_endpoint, req.agent_api_key)
          [] provider = "custom" ->
                custom_request(prompt, req.agent_endpoint, req.agent_api_key, req.test_parameters)

ResponseOf(provider, resp) ==
    CASE provider = "openai" -> openai_response(resp)
      [] provider = "anthropic" -> anthropic_response(resp)
      [] provider = "huggingface" -> huggingface_response(resp)
      [] provider = "custom" -> custom_response(resp)

Prefix == "Failed to execute agent: "

reraise(e) == [type |-> e.type, message |-> e.message]

(* except Exception as e: raise Exception(f"Failed to execute agent: {str(e)}") *)
except_Exception(e) == [type |-> "Exception", message |-> Prefix \o e.message]

NoError == [type |-> "", message |-> ""]

NoResponse == [status |-> 0, text |-> "", json |-> JNull]

(* how a call of execute_agent ends: r is what the provider function did,
   resp the HTTP response it saw *)
Ended(r, resp, elapsed) ==
    IF r.ok
    THEN [kind |-> "returned", value |-> r.v, execution_time |-> elapsed,
          error |-> NoError, inner |-> NoError, response |-> resp]
    ELSE [kind |-> "raised", value |-> JNull, execution_time |-> elapsed,
          error |-> except_Exception(r), inner |-> [type |-> r.type, message |-> r.message],
          response |-> resp]

(***************************************************************************)
(* Requests and responses of the dispatcher's runs.                        *)
(***************************************************************************)
AgentTypes == {"openai", "anthropic", "google", "huggingface", "custom", "cohere"}

Endpoints == {"", "http://agent.test/v1/generate"}

ApiKeys == {None, Some(""), Some("hf_0123456789abcdef")}

Parameters ==
    <<None, Some(<<>>), Some(<<Member("temperature", JNum(1))>>),
      Some(<<Member("prompt", JStr("override"))>>)>>

RequestTaskTypes == {"problem_solving", "summarization"}

Bodies ==
    <<JObj(<<Member("choices", JList(<<JObj(<<Member("message",
                JObj(<<Member("content", JStr("Hello."))>>))>>)>>))>>),
      JObj(<<Member("content", JList(<<JObj(<<Member("text", JStr("Hello."))>>)>>))>>),
      JList(<<JObj(<<Member("generated_text", JStr("Hello."))>>)>>),
      JList(<<JObj(<<Member("score", JNum(1))>>)>>),
      JList(<<JStr("output")>>),
      JList(<<>>),
      JObj(<<Member("generated_text", JStr("Hello."))>>),
      JObj(<<Member("generated_text", JNull)>>),
      JObj(<<Member("text", JStr("Hello."))>>),
      JObj(<<Member("result", JNum(7)), Member("output", JStr("Hello."))>>),
      JObj(<<Member("error", JStr("none"))>>),
      JStr("Hello."),
      JNum(7),
      JNull,
      JInvalid,
      JObj(<<Member("text", JStr("Low.")), Member("generated_text", JStr("High."))>>)>>

Statuses == {200, 201, 404, 429, 500, 503}

ErrorTexts == {"", "overloaded"}

TransportErrors ==
    {[ok |-> FALSE, type |-> "ReadTimeout", message |-> ""],
     [ok |-> FALSE, type |-> "ConnectError", message |-> "All connection attempts failed"]}

SdkErrors ==
    {[ok |-> FALSE, type |-> "InvalidArgument", message |-> "400 API key not valid."],
     [ok |-> FALSE, type |-> "ValueError", message |-> "response.text requires a valid Part"]}

SdkTexts == {"", "Hello."}

Provider == ProviderOf(request.agent_type)

DispatchInit ==
    /\ AnalyzerIdle
    /\ PlatformIdle
    /\ TaskStoreIdle
    /\ \E a \in AgentTypes, e \in Endpoints, k \in ApiKeys, p \in DOMAIN Parameters,
          t \in RequestTaskTypes :
          request = [agent_name |-> "agent", agent_endpoint |-> e, agent_api_key |-> k,
                     agent_type |-> a, task_type |-> t, test_input |-> "2 + 2",
                     test_parameters |-> Parameters[p]]
    /\ dpc = "start"
    /\ net = <<>>
    /\ outcome = [kind |-> "none"]

(* execute_agent up to the await of the provider's client *)
Dispatch ==
    /\ dpc = "start"
    /\ LET pre == BeforeCall(Provider, request)
       IN  IF pre.ok
           THEN /\ net' = Append(net, RequestOf(Provider, request))
                /\ dpc' = "awaiting"
                /\ UNCHANGED outcome
           ELSE /\ \E elapsed \in ElapsedTimes : outcome' = Ended(pre, NoResponse, elapsed)
                /\ dpc' = "done"
                /\ UNCHANGED net
    /\ UNCHANGED <<request, avars, pvars, tvars>>

(* the HTTP response arrives and execute_agent runs to its end *)
HttpResponse ==
    /\ dpc = "awaiting"
    /\ net[Len(net)].via = "httpx"
    /\ net[Len(net)].refused = ""
    /\ \E status \in Statuses, b \in DOMAIN Bodies, text \in ErrorTexts, elapsed \in ElapsedTimes :
          /\ status = 200 => text = ""
          /\ status # 200 => b = 1
          /\ LET resp == [status |-> status,
                          text |-> IF status = 200 THEN Dumps(Bodies[b]) ELSE text,
                          json |-> IF status = 200 THEN Bodies[b] ELSE JInvalid]
             IN  outcome' = Ended(ResponseOf(Provider, resp), resp, elapsed)
    /\ dpc' = "done"
    /\ UNCHANGED <<request, net, avars, pvars, tvars>>

(* client.post raises: it refuses the call, or the transport fails *)
HttpFailure ==
    /\ dpc = "awaiting"
    /\ net[Len(net)].via = "httpx"
    /\ LET call == net[Len(net)]
           errors == IF call.refused = "" THEN TransportErrors
                     ELSE {[ok |-> FALSE,
                            type |-> IF call.refused = MissingProtocol
                                     THEN "UnsupportedProtocol" ELSE "TypeError",
                            message |-> call.refused]}
       IN  \E e \in errors, elapsed \in ElapsedTimes : outcome' = Ended(e, NoResponse, elapsed)
    /\ dpc' = "done"
    /\ UNCHANGED <<request, net, avars, pvars, tvars>>

(* generate_content returns and response.text is read *)
SdkReturn ==
    /\ dpc = "awaiting"
    /\ net[Len(net)].via = "google.generativeai"
    /\ \E text \in SdkTexts, elapsed \in ElapsedTimes :
          outcome' = Ended(Return(JStr(text)), NoResponse, elapsed)
    /\ dpc' = "done"
    /\ UNCHANGED <<request, net, avars, pvars, tvars>>

(* generate_content or response.text raises *)
SdkRaise ==
    /\ dpc = "awaiting"
    /\ net[Len(net)].via = "google.generativeai"
    /\ \E e \in SdkErrors, elapsed \in ElapsedTimes : outcome' = Ended(e, NoResponse, elapsed)
    /\ dpc' = "done"
    /\ UNCHANGED <<request, net, avars, pvars, tvars>>

DispatchNext == Dispatch \/ HttpResponse \/ HttpFailure \/ SdkReturn \/ SdkRaise

SpecDispatch == DispatchInit /\ [][DispatchNext]_vars

(***************************************************************************)
(* Properties of execute_agent.                                            *)
(***************************************************************************)
Named == {"openai", "anthropic", "google", "huggingface"}

Recognized == Named \cup {"custom"}

Answered == dpc = "done" /\ outcome.response.status # 0

Is2xx(status) == status \in 200..299

(* C6: a request whose provider kind is none of the recognized kinds is not
   refused: it takes the custom branch.  With test_parameters present it
   makes one POST to the request's endpoint whose body starts with the
   prompt under "prompt", "input" and "query"; with test_parameters null
   it fails before the call with the TypeError of the splat.  No outcome is
   an UnsupportedProviderKind error. *)
C6_UnrecognizedKindIsCustom ==
    (request.agent_type \notin Recognized /\ dpc \in {"awaiting", "done"}) =>
        /\ request.test_parameters = None =>
              /\ net = <<>>
              /\ outcome.kind = "raised"
              /\ outcome.inner.type = "TypeError"
        /\ request.test_parameters # None =>
              /\ Len(net) = 1
              /\ net[1].via = "httpx"
              /\ net[1].url = request.agent_endpoint
              /\ Len(net[1].json.items) >= 3
              /\ net[1].json.items[1].k = "prompt"
              /\ net[1].json.items[2].k = "input"
              /\ net[1].json.items[3].k = "query"
              /\ net[1].json.items[2].v.s = create_prompt(request.task_type, request.test_input)
        /\ dpc = "done" => outcome.inner.type # "UnsupportedProviderKind"

(* a request of an unrecognized kind has been answered by its endpoint and
   execute_agent has returned the text *)
C6_Witness ==
    /\ request.agent_type = "cohere"
    /\ dpc = "done"
    /\ Len(net) = 1
    /\ outcome.kind = "returned"
    /\ outcome.value.s = "Hello."

(* C6 as stated: an unrecognized provider kind fails with
   UnsupportedProviderKind and no outbound call is made. *)
C6_UnrecognizedKindRefused ==
    (request.agent_type \notin Recognized /\ dpc = "done") =>
        /\ outcome.kind = "raised"
        /\ outcome.inner.type = "UnsupportedProviderKind"
        /\ net = <<>>

CarriesStatusAndBody(message, resp) ==
    /\ Contains(message, ToString(resp.status))
    /\ Contains(message, resp.text)

(* C7: for every provider that makes the HTTP call itself (openai,
   anthropic, huggingface, custom and the unrecognized kinds) and every
   response whose status is outside 2xx, execute_agent returns no text and
   raises an error whose message carries the status code and the raw body,
   except for a 503 answered to huggingface: its error carries the fixed
   model-loading message and neither the status nor the body. *)
C7_ErrorCarriesStatusAndBody ==
    (Answered /\ ~Is2xx(outcome.response.status)) =>
        /\ outcome.kind = "raised"
        /\ outcome.value.t = "null"
        /\ IF Provider = "huggingface" /\ outcome.response.status = 503
           THEN /\ outcome.error.message = Prefix \o ModelLoading
                /\ ~Contains(outcome.error.message, "503")
           ELSE CarriesStatusAndBody(outcome.error.message, outcome.response)

(* openai has answered 500 with a body and execute_agent has raised *)
C7_Witness ==
    /\ Answered
    /\ Provider = "openai"
    /\ outcome.response.status = 500
    /\ outcome.response.text = "overloaded"
    /\ outcome.kind = "raised"

(* C7 as stated: for every provider and every status outside 2xx the error
   carries the status code and the raw body. *)
C7_EveryErrorCarriesStatusAndBody ==
    (Answered /\ ~Is2xx(outcome.response.status)) =>
        /\ outcome.kind = "raised"
        /\ CarriesStatusAndBody(outcome.error.message, outcome.response)

(* C8: a 503 answered to huggingface ends execute_agent with an error the
   caller can tell from the error of every other non-success status: the
   error of a status other than 200 is the model-loading error exactly when
   the status is 503, and otherwise it is the generic "HuggingFace API
   error" with status and body. *)
C8_ModelLoadingDistinct ==
    (Answered /\ Provider = "huggingface" /\ outcome.response.status # 200) =>
        /\ outcome.kind = "raised"
        /\ outcome.response.status = 503 <=> outcome.error.message = Prefix \o ModelLoading
        /\ outcome.response.status # 503 =>
              StartsWith(outcome.error.message, Prefix \o "HuggingFace API error: ")

(* huggingface has answered 503 and execute_agent has raised *)
C8_Witness ==
    /\ Answered
    /\ Provider = "huggingface"
    /\ outcome.response.status = 503
    /\ outcome.kind = "raised"

(* C9: an error raised inside a provider call is never swallowed, and it
   reaches the caller of execute_agent rewrapped: the caller observes a new
   Exception whose message is "Failed to execute agent: " followed by the
   message of the error the provider call raised; the kind of that error
   is not kept. *)
C9_ErrorsRewrapped ==
    (dpc = "done" /\ outcome.inner # NoError) =>
        /\ outcome.kind = "raised"
        /\ outcome.error.type = "Exception"
        /\ outcome.error.message = Prefix \o outcome.inner.message

(* the transport has timed out inside a provider call and execute_agent has
   raised *)
C9_Witness ==
    /\ dpc = "done"
    /\ outcome.kind = "raised"
    /\ outcome.inner.type = "ReadTimeout"
    /\ outcome.error.type = "Exception"

(* C9 as stated: the error the caller observes is the error the provider
   call raised, with the same kind and content. *)
C9_ErrorsUnmodified ==
    (dpc = "done" /\ outcome.kind = "raised") => outcome.error = outcome.inner

(* C10: every invocation of execute_agent, whatever the provider kind and
   the credential and however it ends, has made exactly one outbound
   network operation. *)
C10_ExactlyOneNetworkOperation ==
    dpc = "done" => Len(net) = 1

(***************************************************************************)
(* Progress of execute_agent.  The code awaits its client and nothing      *)
(* else: a call whose client has a timeout ends at the latest when the     *)
(* timeout expires, and a call whose client has none has no step that must *)
(* happen.                                                                 *)
(***************************************************************************)
Expire ==
    /\ dpc = "awaiting"
    /\ net[Len(net)].timeout # None
    /\ HttpFailure

SpecDispatchLive ==
    DispatchInit /\ [][DispatchNext]_vars /\ WF_vars(Dispatch) /\ WF_vars(Expire)

(* C11: for every provider kind a call of execute_agent eventually ends,
   with a result or with an error, even when the provider never answers. *)
C11_EventuallyCompletes == <>(dpc = "done")

(***************************************************************************)
(* Properties of the sub-scores.                                           *)
(***************************************************************************)
(* the minimum word counts of the task kinds, in the order of TaskType *)
MinimumWords == <<200, 500, 300, 400, 500, 50, 100, 150>>

KindOrder == <<"idea_generation", "proposal_writing", "experiment_design", "paper_writing",
               "literature_review", "code_generation", "problem_solving", "summarization">>

MinimumOf(t) == MinimumWords[CHOOSE i \in DOMAIN KindOrder : KindOrder[i] = t]

(* C12: with w the number of whitespace-separated words of the text and
   min(k) the minimum of the task kind (200, 500, 300, 400, 500, 50, 100,
   150), completeness is exactly 1 when w >= min(k) and exactly w / min(k)
   when w < min(k). *)
C12_Completeness ==
    apc = "returned" =>
        LET w == report.metrics.word_count
            minimum == MinimumOf(task_type)
        IN  report.scores["completeness"] =
                IF w >= minimum THEN Num(1) ELSE Frac(w, minimum)

(* a code_generation response of more words than the minimum has been
   analyzed *)
C12_Witness ==
    /\ apc = "returned"
    /\ task_type = "code_generation"
    /\ report.metrics.word_count > MinimumOf(task_type)
    /\ report.scores["completeness"] = Num(1)

(* the text has paragraphs and a list-item line, no heading-marker line, and
   neither an asterisk nor a double underscore *)
ParagraphsAndListOnly(text) ==
    LET lines == SplitLines(text)
    IN  /\ Len(SplitParagraphs(text)) >= 2
        /\ \E i \in DOMAIN lines : IsListLine(lines[i])
        /\ \A i \in DOMAIN lines : ~StartsWith(lines[i], "#")
        /\ ~Contains(text, "*")
        /\ ~Contains(text, "__")

(* C13: a text with two blank-line-separated paragraphs and a list-item
   line, no heading-marker line and no emphasis markup (no asterisk and no
   double underscore anywhere, the list marker included) has structure
   exactly 0.5, the sum of 0.3 for the paragraphs and 0.2 for the list. *)
C13_StructureHalf ==
    (apc = "returned" /\ ParagraphsAndListOnly(response)) =>
        report.scores["structure"] = Frac(5, 10)

(* a response of two paragraphs, the second a list of dashes, has been
   analyzed *)
C13_Witness ==
    /\ apc = "returned"
    /\ ParagraphsAndListOnly(response)
    /\ Len(SplitParagraphs(response)) = 2
    /\ Contains(response, "- item")

(* C13 as stated: such a text has structure exactly 0.6. *)
C13_StructureSixTenths ==
    (apc = "returned" /\ ParagraphsAndListOnly(response)) =>
        report.scores["structure"] = Frac(6, 10)

(* how many of the newline-separated lines repeat a line above them *)
DuplicateLines(text) ==
    LET lines == SplitLines(text)
    IN  Cardinality({i \in DOMAIN lines : \E j \in 1..(i - 1) : lines[j] = lines[i]})

(* C14: accuracy is 0.3 exactly for the texts in which more than half of
   the newline-separated lines repeat an earlier line, whatever else the
   text contains; a text in which exactly half of the lines do (two
   identical lines, 2n lines made of n distinct lines each occurring twice)
   is not penalised. *)
C14_RepetitionPenalty ==
    apc = "returned" =>
        LET more_than_half == 2 * DuplicateLines(response) > Len(SplitLines(response))
        IN  report.scores["accuracy"] = Frac(3, 10) <=> more_than_half

(* a text of three equal lines that also hedges has been analyzed *)
C14_Witness ==
    /\ apc = "returned"
    /\ Len(SplitLines(response)) = 3
    /\ DuplicateLines(response) = 2
    /\ Contains(response, "I cannot")
    /\ report.scores["accuracy"] = Frac(3, 10)

(* C14 as stated: accuracy is 0.3 for every text in which at least half of
   the lines are duplicates. *)
C14_PenaltyAtHalf ==
    (apc = "returned" /\ 2 * DuplicateLines(response) >= Len(SplitLines(response))) =>
        report.scores["accuracy"] = Frac(3, 10)

(* the average number of words of the non-blank sentences of a text that
   has one *)
AverageSentenceWords(text) ==
    LET sentences == ClaritySentences(text)
        total == Sum([i \in DOMAIN sentences |-> Len(Split(sentences[i]))])
    IN  Frac(total, Len(sentences))

(* C15: with a the average words per sentence of a text that has a
   non-empty sentence, clarity is 1.0 when 15 <= a <= 20, 0.8 when
   10 <= a < 15 or 20 < a < 25, 0.6 when a < 10 and 0.5 when a >= 25;
   without a sentence it is 0.5. *)
C15_ClarityBuckets ==
    apc = "returned" =>
        IF Len(ClaritySentences(response)) = 0
        THEN report.scores["clarity"] = Frac(5, 10)
        ELSE LET a == AverageSentenceWords(response)
             IN  report.scores["clarity"] =
                     IF Le(Num(15), a) /\ Le(a, Num(20)) THEN Num(1)
                     ELSE IF Le(Num(10), a) /\ Lt(a, Num(25)) THEN Frac(8, 10)
                     ELSE IF Lt(a, Num(10)) THEN Frac(6, 10)
                     ELSE Frac(5, 10)

HasFiller(text) ==
    \E i \in DOMAIN filler_phrases : Contains(Lower(text), filler_phrases[i])

RepetitionPenalty(text) ==
    2 * Cardinality(Range(SplitLines(text))) < Len(SplitLines(text))

(* C16: accuracy is 0.3 when the repetition penalty applies, even if the
   text hedges; otherwise 0.5 iff a hedging phrase occurs in the text,
   whatever its case; otherwise 0.8; for every task kind alike. *)
C16_AccuracyPrecedence ==
    apc = "returned" =>
        report.scores["accuracy"] =
            IF RepetitionPenalty(response) THEN Frac(3, 10)
            ELSE IF HasFiller(response) THEN Frac(5, 10)
            ELSE Frac(8, 10)

(* a text that hedges in every one of its three equal lines has been
   analyzed and given 0.3 *)
C16_Witness ==
    /\ apc = "returned"
    /\ RepetitionPenalty(response)
    /\ HasFiller(response)
    /\ task_type = "code_generation"
    /\ report.scores["accuracy"] = Frac(3, 10)

(***************************************************************************)
(* Properties of the report.                                               *)
(***************************************************************************)
(* the weights of the eight sub-scores, in hundredths, in the order of
   Aspects *)
Hundredths == <<20, 20, 15, 10, 15, 10, 5, 5>>

RECURSIVE WeightedHundredths(_, _)
WeightedHundredths(scores, k) ==
    IF k = 0 THEN Num(0)
    ELSE Add(WeightedHundredths(scores, k - 1), Mul(scores[Aspects[k]], Num(Hundredths[k])))

(* C17: overall_score is 100 times the weighted sum of the eight sub-scores
   with weights .20, .20, .15, .10, .15, .10, .05, .05, which sum to 1,
   rounded to two decimals (either way on an exact tie); it is determined
   by the eight sub-scores alone. *)
C17_WeightedSum ==
    /\ Sum(Hundredths) = 100
    /\ apc = "returned" =>
          LET exact == WeightedHundredths(report.scores, Len(Aspects))
          IN  report.overall_score \in {Round2(exact, FALSE), Round2(exact, TRUE)}

(* a report whose eight sub-scores are all above zero and not all equal *)
C17_Witness ==
    /\ apc = "returned"
    /\ \A a \in Range(Aspects) : Lt(Num(0), report.scores[a])
    /\ report.scores["creativity"] # report.scores["accuracy"]
    /\ execution_time # Num(0)

NamedIn(list, word, a) == \E i \in DOMAIN list : list[i] = word \o " " \o a

(* the dimensions a list names, in the order of the list *)
PlaceOf(entry, word) ==
    CHOOSE k \in DOMAIN Aspects : entry = word \o " " \o Aspects[k]

InDimensionOrder(list, word) ==
    /\ \A i \in DOMAIN list : \E k \in DOMAIN Aspects : list[i] = word \o " " \o Aspects[k]
    /\ \A i, j \in DOMAIN list : i < j => PlaceOf(list[i], word) < PlaceOf(list[j], word)

(* C18: a dimension is named in strengths iff its sub-score is >= 0.8 and
   in weaknesses iff its sub-score is < 0.5; none is in both, one with a
   sub-score in [0.5, 0.8) is in neither, and both lists follow the order
   relevance, completeness, clarity, structure, depth, accuracy,
   creativity, coherence. *)
C18_StrengthsAndWeaknesses ==
    apc = "returned" =>
        /\ \A a \in Range(Aspects) :
              /\ NamedIn(report.strengths, "Excellent", a) <=> Ge(report.scores[a], Frac(8, 10))
              /\ NamedIn(report.weaknesses, "Poor", a) <=> Lt(report.scores[a], Frac(5, 10))
              /\ ~(NamedIn(report.strengths, "Excellent", a) /\ NamedIn(report.weaknesses, "Poor", a))
        /\ InDimensionOrder(report.strengths, "Excellent")
        /\ InDimensionOrder(report.weaknesses, "Poor")

(* a report that names two strengths and two weaknesses, one strength for a
   sub-score of exactly 0.8 *)
C18_Witness ==
    /\ apc = "returned"
    /\ Len(report.strengths) >= 2
    /\ Len(report.weaknesses) >= 2
    /\ report.scores["accuracy"] = Frac(8, 10)
    /\ NamedIn(report.strengths, "Excellent", "accuracy")

(* the rule table of the recommendations: the dimension, the threshold in
   tenths below which the advice is given, the advice *)
AdviceTable ==
    << <<"relevance", 6, "Improve relevance by focusing more directly on the task requirements">>,
       <<"completeness", 7, "Provide more comprehensive and detailed responses">>,
       <<"clarity", 7, "Enhance clarity by using simpler sentence structures">>,
       <<"structure", 6, "Improve organization with clear sections and formatting">>,
       <<"depth", 6, "Add more depth with examples and detailed explanations">>,
       <<"coherence", 6, "Improve logical flow with better transitions between ideas">>,
       <<"creativity", 6, "Enhance creativity with more innovative and unique ideas">> >>

Advised(scores, t, i) ==
    /\ Lt(scores[AdviceTable[i][1]], Frac(AdviceTable[i][2], 10))
    /\ AdviceTable[i][1] = "creativity" => t = "idea_generation"

ExpectedAdvice(scores, t) ==
    LET idx == Ascending({i \in DOMAIN AdviceTable : Advised(scores, t, i)}, 1, Len(AdviceTable))
    IN  [k \in 1..Len(idx) |-> AdviceTable[idx[k]][3]]

IsTableAdvice(text) == \E i \in DOMAIN AdviceTable : AdviceTable[i][3] = text

FormattingAdvice == "Use proper code formatting with syntax highlighting"

(* C19: the advice of the rule table found in a report is what the table
   gives for the sub-scores and the task kind, in the order of the table:
   relevance < 0.6, completeness < 0.7, clarity < 0.7, structure < 0.6,
   depth < 0.6, coherence < 0.6, and creativity < 0.6 for idea_generation
   only; accuracy triggers nothing.  The report holds nothing else, except
   the code-formatting advice of code_generation. *)
C19_AdviceTable ==
    apc = "returned" =>
        /\ SelectSeq(report.recommendations, IsTableAdvice)
               = ExpectedAdvice(report.scores, task_type)
        /\ \A i \in DOMAIN report.recommendations :
              \/ IsTableAdvice(report.recommendations[i])
              \/ task_type = "code_generation" /\ report.recommendations[i] = FormattingAdvice

(* a problem_solving response of creativity below 0.6 has been analyzed and
   no creativity advice given, while other advice was *)
C19_Witness ==
    /\ apc = "returned"
    /\ task_type = "problem_solving"
    /\ Lt(report.scores["creativity"], Frac(6, 10))
    /\ Len(report.recommendations) >= 2
    /\ \A i \in DOMAIN report.recommendations : report.recommendations[i] # AdviceTable[7][3]

(* C20: the code-formatting advice is given for every code_generation
   analysis, with or without a code fence in the response, and for no other
   task kind. *)
C20_FormattingAdviceAlways ==
    apc = "returned" =>
        ((\E i \in DOMAIN report.recommendations : report.recommendations[i] = FormattingAdvice)
            <=> task_type = "code_generation")

(* a code_generation response that holds a code fence has been analyzed and
   the code-formatting advice given *)
C20_Witness ==
    /\ apc = "returned"
    /\ task_type = "code_generation"
    /\ Contains(response, CodeFence)
    /\ report.recommendations[Len(report.recommendations)] = FormattingAdvice

(***************************************************************************)
(* Properties of the text extraction and of the request shaping.           *)
(***************************************************************************)
(* a provider has answered 200 with a body that is JSON *)
AnsweredJson(provider) ==
    /\ Answered
    /\ Provider = provider
    /\ outcome.response.status = 200
    /\ outcome.response.json.t # "invalid"

(* the first of the fields, in their priority order, that an object has *)
FirstField(obj, fields) ==
    fields[CHOOSE i \in DOMAIN fields :
              /\ HasKey(obj, fields[i])
              /\ \A j \in 1..(i - 1) : ~HasKey(obj, fields[j])]

CustomFields == <<"output", "response", "text", "generated_text", "result", "completion">>

(* C21: for a custom-http provider and every status-200 JSON body (object,
   string, list, number or null) extraction does not fail and returns the
   body itself when it is a string, otherwise the value of the first field
   present among output, response, text, generated_text, result,
   completion, otherwise the stringified whole body. *)
C21_CustomExtraction ==
    AnsweredJson("custom") =>
        LET body == outcome.response.json
        IN  /\ outcome.kind = "returned"
            /\ outcome.value.t = "str"
            /\ outcome.value.s =
                  IF body.t = "str" THEN body.s
                  ELSE IF body.t = "obj" /\ \E i \in DOMAIN CustomFields : HasKey(body, CustomFields[i])
                       THEN Str(ValueOf(body, FirstField(body, CustomFields)))
                       ELSE Str(body)

SameJson(a, b) == a.t = b.t /\ Str(a) = Str(b)

(* C22: for a huggingface-inference provider and every status-200 JSON body
   extraction does not fail and returns: for a list, the generated_text of
   its first element, or the stringified first element when the field is
   absent or the element is no object, and the stringified body when the
   list is empty; for an object, generated_text if present, else text if
   present, else the stringified object; the stringified body otherwise. *)
C22_HuggingfaceExtraction ==
    AnsweredJson("huggingface") =>
        LET body == outcome.response.json
            first == body.items[1]
            expected ==
                IF body.t = "list" /\ Len(body.items) > 0
                THEN IF first.t = "obj" /\ HasKey(first, "generated_text")
                     THEN ValueOf(first, "generated_text")
                     ELSE JStr(Str(first))
                ELSE IF body.t = "obj" /\ HasKey(body, "generated_text")
                     THEN ValueOf(body, "generated_text")
                     ELSE IF body.t = "obj" /\ HasKey(body, "text")
                          THEN ValueOf(body, "text")
                          ELSE JStr(Str(body))
        IN  /\ outcome.kind = "returned"
            /\ SameJson(outcome.value, expected)

(* huggingface has answered 200 with an object that has both text and
   generated_text, and execute_agent has returned the latter *)
C22_Witness ==
    /\ AnsweredJson("huggingface")
    /\ outcome.response.json.t = "obj"
    /\ HasKey(outcome.response.json, "text")
    /\ HasKey(outcome.response.json, "generated_text")
    /\ outcome.kind = "returned"
    /\ outcome.value.s = "High."

(* C23: for every provider kind the outbound call targets the endpoint of
   the request when the request supplies one, and a default endpoint of the
   provider kind otherwise; no call goes to an empty URL. *)
C23_EndpointOrDefault ==
    \A i \in DOMAIN net :
        /\ net[i].url # ""
        /\ request.agent_endpoint # "" => net[i].url = request.agent_endpoint

(* the parameters of the request, none when the request has null *)
ExtraParameters == IF request.test_parameters = None THEN <<>> ELSE request.test_parameters[1]

(* C24: the JSON body sent to a custom-http backend carries the constructed
   prompt under each of the keys prompt, input and query, and every extra
   parameter of the request; for every mapping of extra parameters, the
   null one and one with a key prompt, input or query included. *)
C24_CustomBody ==
    (Provider = "custom" /\ dpc = "done") =>
        /\ Len(net) = 1
        /\ LET body == net[1].json
               prompt == create_prompt(request.task_type, request.test_input)
           IN  /\ \A key \in {"prompt", "input", "query"} :
                     /\ HasKey(body, key)
                     /\ SameJson(ValueOf(body, key), JStr(prompt))
               /\ \A i \in DOMAIN ExtraParameters :
                     HasKey(body, ExtraParameters[i].k)


(***************************************************************************)
(* The TestingPlatform and the handlers of /api/test and /api/results.     *)
(*                                                                         *)
(* A python dict is a function whose domain is its set of keys; a stored   *)
(* result keeps the fields the platform reads (agent_name, task_type,      *)
(* success, analysis.overall_score) and test_id and error; a field the     *)
(* dictionary does not have is None.  test_agent awaits execute_agent and  *)
(* nothing else, so a call has two steps: up to the await, and from the    *)
(* await to its end.  What execute_agent and analyze produce for a call    *)
(* is drawn from Outcomes.                                                 *)
(***************************************************************************)
MaxTests == 3

AgentNames == {"alpha", "beta"}

PlatformTaskTypes == {"summarization", "code_generation"}

(* what execute_agent followed by analyze gives: a report with its overall
   score, or an exception *)
Outcomes ==
    {[ok |-> TRUE, overall_score |-> Num(40), message |-> ""],
     [ok |-> TRUE, overall_score |-> Frac(181, 2), message |-> ""],
     [ok |-> FALSE, overall_score |-> Num(0),
      message |-> "Error calling agent: API Error: 500"]}

(* d[key] = value *)
Put(d, key, value) == [k \in DOMAIN d \cup {key} |-> IF k = key THEN value ELSE d[k]]

NewProfile == [total_tests |-> 0, scores |-> <<>>, task_performance |-> <<>>]

(* add_test_result where a failed test scores 0 *)
add_test_result_scoring_failures(platform, result) ==
    LET agent_name == result.agent_name
        profiles == IF agent_name \in DOMAIN platform.agent_profiles
                    THEN platform.agent_profiles
                    ELSE Put(platform.agent_profiles, agent_name, NewProfile)
        profile == profiles[agent_name]
        score == IF result.success THEN result.analysis[1].overall_score ELSE Num(0)
        task == result.task_type
        lists == IF task \in DOMAIN profile.task_performance
                 THEN profile.task_performance
                 ELSE Put(profile.task_performance, task, <<>>)
    IN  [test_results |-> Append(platform.test_results, result),
         agent_profiles |->
             Put(profiles, agent_name,
                 [total_tests |-> profile.total_tests + 1,
                  scores |-> Append(profile.scores, score),
                  task_performance |-> Put(lists, task, Append(lists[task], score))])]

(* TestingPlatform.add_test_result(result): the platform after the call *)
add_test_result(platform, result) ==
    LET agent_name == result.agent_name
        profiles == IF agent_name \in DOMAIN platform.agent_profiles
                    THEN platform.agent_profiles
                    ELSE Put(platform.agent_profiles, agent_name, NewProfile)
        profile == profiles[agent_name]
        counted == [profile EXCEPT !.total_tests = @ + 1]
        score == result.analysis[1].overall_score
        task == result.task_type
        lists == IF task \in DOMAIN counted.task_performance
                 THEN counted.task_performance
                 ELSE Put(counted.task_performance, task, <<>>)
        scored == [counted EXCEPT
                      !.scores = Append(@, score),
                      !.task_performance = Put(lists, task, Append(lists[task], score))]
    IN  [test_results |-> Append(platform.test_results, result),
         agent_profiles |->
             Put(profiles, agent_name, IF result.success THEN scored ELSE counted)]

(* the dictionary test_agent stores: test_result when execute_agent and
   analyze returned, error_result when one of them raised *)
StoredResult(test_id, req, o) ==
    [test_id |-> test_id,
     agent_name |-> req.agent_name,
     task_type |-> req.task_type,
     analysis |-> IF o.ok THEN Some([overall_score |-> o.overall_score]) ELSE None,
     error |-> IF o.ok THEN None ELSE Some(o.message),
     success |-> o.ok]

Platform == [test_results |-> test_results, agent_profiles |-> agent_profiles]

PlatformInit ==
    /\ AnalyzerIdle
    /\ DispatcherIdle
    /\ PlatformIdle
    /\ TaskStoreIdle

(* test_agent up to the await of execute_agent: test_id = uuid4() is the
   number of the call *)
TestStart ==
    /\ Len(calls) < MaxTests
    /\ \E name \in AgentNames, task \in PlatformTaskTypes :
          calls' = Append(calls, [agent_name |-> name, task_type |-> task,
                                  pc |-> "awaiting"])
    /\ listing' = NoListing
    /\ UNCHANGED <<test_results, agent_profiles, finished>>
    /\ UNCHANGED <<avars, dvars, tvars>>

(* test_agent from the await to its end, by the try block or by the except
   block *)
TestEnd(test_id, o) ==
    /\ calls[test_id].pc = "awaiting"
    /\ LET after == add_test_result(Platform, StoredResult(test_id, calls[test_id], o))
       IN  /\ test_results' = after.test_results
           /\ agent_profiles' = after.agent_profiles
    /\ calls' = [calls EXCEPT ![test_id].pc = IF o.ok THEN "returned" ELSE "raised 500"]
    /\ finished' = Append(finished, test_id)
    /\ listing' = NoListing
    /\ UNCHANGED <<avars, dvars, tvars>>

TestReturns == \E test_id \in DOMAIN calls, o \in Outcomes : o.ok /\ TestEnd(test_id, o)

TestRaises == \E test_id \in DOMAIN calls, o \in Outcomes : ~o.ok /\ TestEnd(test_id, o)

(* s[start:] of python, start an integer of either sign *)
SliceFrom(s, start) ==
    LET n == Len(s)
        from == IF start < 0 THEN (IF n + start < 0 THEN 0 ELSE n + start)
                ELSE (IF start > n THEN n ELSE start)
    IN  SubSeq(s, from + 1, n)

(* list.reverse() *)
Reverse(s) == [i \in 1..Len(s) |-> s[Len(s) + 1 - i]]

(* get_results(limit): the response *)
get_results(limit) ==
    [called |-> TRUE,
     limit |-> limit,
     total_tests |-> Len(test_results),
     results |-> Reverse(SliceFrom(test_results, 0 - limit))]

Limits == 0..(MaxTests + 1)

GetResults ==
    /\ \E limit \in Limits : listing' = get_results(limit)
    /\ UNCHANGED <<test_results, agent_profiles, calls, finished>>
    /\ UNCHANGED <<avars, dvars, tvars>>

PlatformNext == TestStart \/ TestReturns \/ TestRaises \/ GetResults

SpecPlatform == PlatformInit /\ [][PlatformNext]_vars

(***************************************************************************)
(* Properties of the platform.                                             *)
(***************************************************************************)
(* the stored results of an agent name, and the successful ones *)
StoredFor(name) ==
    LET Mine(r) == r.agent_name = name IN SelectSeq(test_results, Mine)

SuccessfulFor(name) ==
    LET Mine(r) == r.agent_name = name /\ r.success IN SelectSeq(test_results, Mine)

RECURSIVE TotalLength(_, _)
TotalLength(lists, keys) ==
    IF keys = {} THEN 0
    ELSE LET k == CHOOSE key \in keys : TRUE
         IN  Len(lists[k]) + TotalLength(lists, keys \ {k})

(* the calls of test_agent that ended *)
FinishedCalls == {id \in DOMAIN calls : calls[id].pc # "awaiting"}

(* C25: after any interleaving of calls of /api/test, successful and failing,
   test_results holds one entry per finished request, in the order the
   requests finished, and for every agent name the profile counts the stored
   results of that name: total_tests all of them, scores the successful ones,
   and the task_performance lists together as many as scores. *)
C25_PlatformConsistent ==
    /\ Len(test_results) = Cardinality(FinishedCalls)
    /\ Len(test_results) = Len(finished)
    /\ \A k \in DOMAIN test_results : test_results[k].test_id = finished[k]
    /\ {test_results[k].test_id : k \in DOMAIN test_results} = FinishedCalls
    /\ \A name \in AgentNames :
          IF name \in DOMAIN agent_profiles
          THEN LET profile == agent_profiles[name]
               IN  /\ profile.total_tests = Len(StoredFor(name))
                   /\ Len(profile.scores) = Len(SuccessfulFor(name))
                   /\ TotalLength(profile.task_performance,
                                  DOMAIN profile.task_performance)
                      = Len(profile.scores)
          ELSE Len(StoredFor(name)) = 0

(* three calls in flight together ended in another order than they began,
   one of an agent failed and one of the same agent succeeded on each of two
   task kinds *)
C25_Witness ==
    /\ Len(finished) = 3
    /\ finished[1] = 3
    /\ finished[3] = 1
    /\ \E name \in AgentNames :
          /\ Len(StoredFor(name)) = 3
          /\ Len(SuccessfulFor(name)) = 2
          /\ Cardinality(DOMAIN agent_profiles[name].task_performance) = 2

(* C26: get_results(limit), limit >= 0, returns the min(limit, n) results
   stored last, the newest first, and total_tests = n; limit = 0 returns no
   result. *)
C26_GetResults ==
    listing.called =>
        LET n == Len(test_results)
            k == IF listing.limit < n THEN listing.limit ELSE n
        IN  /\ listing.total_tests = n
            /\ Len(listing.results) = k
            /\ \A i \in 1..k : listing.results[i] = test_results[n + 1 - i]

(* the same for the limits of at least 1, which is what the code does *)
C26_GetResultsPositiveLimit ==
    (listing.called /\ listing.limit >= 1) =>
        LET n == Len(test_results)
            k == IF listing.limit < n THEN listing.limit ELSE n
        IN  /\ listing.total_tests = n
            /\ Len(listing.results) = k
            /\ \A i \in 1..k : listing.results[i] = test_results[n + 1 - i]

(* limit = 0 returns every stored result *)
C26_LimitZero ==
    (listing.called /\ listing.limit = 0) => Len(listing.results) = Len(test_results)

(***************************************************************************)
(* api/agents.py and agents/research_agent.py: the task store.             *)
(*                                                                         *)
(* execute_agent_task has no await and is one step.  process_agent_task    *)
(* awaits execute_task, whose only call out is the blocking llm.invoke, and *)
(* then runs to its end without another await, so the event loop runs it   *)
(* as one step too: what llm.invoke and db.commit do is drawn from         *)
(* LlmOutcomes and CommitOutcomes.  A result keeps every field of the      *)
(* dictionary of execute_task but the timestamp.                           *)
(***************************************************************************)
MaxTasks == 2

(* ResearchAgent._initialize_llm: the client, or the exception raised.
   configured tells whether the client library accepts the key of the
   settings (GOOGLE_API_KEY and GROQ_API_KEY default to None) *)
initialize_llm(agent_type, configured) ==
    IF agent_type = "gemini"
    THEN IF configured THEN Return("ChatGoogleGenerativeAI")
         ELSE Raise("ValidationError", "1 validation error for ChatGoogleGenerativeAI")
    ELSE IF agent_type = "groq"
    THEN IF configured THEN Return("Groq")
         ELSE Raise("GroqError", "The api_key client option must be set")
    ELSE Raise("ValueError", "Unknown agent type: " \o agent_type)

(* ResearchAgent._async_llm_call: the string returned, None when the
   function ends without a return.  llm is what llm.invoke does *)
async_llm_call(agent_type, llm) ==
    IF agent_type = "gemini"
    THEN IF llm.ok THEN Some(llm.v) ELSE Some("Error: " \o llm.message)
    ELSE IF agent_type = "groq" THEN None
    ELSE Some("Agent type not supported")

(* ResearchAgent._assess_completeness *)
assess_completeness(output) ==
    LET word_count == Len(Split(output))
    IN  IF word_count < 100 THEN Frac(3, 10)
        ELSE IF word_count < 300 THEN Frac(6, 10)
        ELSE IF word_count < 500 THEN Frac(8, 10)
        ELSE Frac(95, 100)

(* ResearchAgent._calculate_metrics: len(None) raises TypeError *)
calculate_metrics(output) ==
    IF output = None THEN Raise("TypeError", "object of type 'NoneType' has no len()")
    ELSE Return([output_length |-> Len(output[1]),
                 word_count |-> Len(Split(output[1])),
                 completeness |-> assess_completeness(output[1]),
                 quality_score |-> Frac(75, 100)])

(* the task types execute_task knows *)
KnownTaskTypes ==
    {"idea_generation", "proposal_writing", "experiment_design", "paper_writing",
     "literature_review"}

(* ResearchAgent.execute_task: it returns its result dictionary whatever
   happens inside; metrics stays {} (no metrics) when an exception is caught *)
execute_task(agent_type, task, llm) ==
    LET known == task.type \in KnownTaskTypes
        output == async_llm_call(agent_type, llm)
        metrics == calculate_metrics(output)
    IN  Return(
        IF ~known
        THEN [task_id |-> task.id, task_type |-> task.type, status |-> "failed",
              result |-> None, metrics |-> None,
              error |-> Some("Unknown task type: " \o task.type)]
        ELSE IF ~metrics.ok
        THEN [task_id |-> task.id, task_type |-> task.type, status |-> "failed",
              result |-> output, metrics |-> None, error |-> Some(metrics.message)]
        ELSE [task_id |-> task.id, task_type |-> task.type, status |-> "completed",
              result |-> output, metrics |-> Some(metrics.v), error |-> None])

(* the requests of /execute-task: the two agent types and one the code does
   not know, two task types of execute_task and one it does not know *)
TaskAgentTypes == {"gemini", "groq", "claude"}

TaskTaskTypes == {"idea_generation", "literature_review", "poetry"}

(* llm.invoke(prompt): response.content, or an exception *)
LlmOutcomes ==
    {Return("Idea one. Idea two."),
     Raise("ResourceExhausted", "429 Quota exceeded")}

(* db.add and db.commit: done, or an exception *)
CommitOutcomes ==
    {[ok |-> TRUE, type |-> "", message |-> ""],
     [ok |-> FALSE, type |-> "IntegrityError",
      message |-> "insert or update on table agent_tests violates foreign key constraint"]}

Processing == [status |-> "processing", result |-> None, error |-> None]

TaskStoreInit ==
    /\ AnalyzerIdle
    /\ DispatcherIdle
    /\ PlatformIdle
    /\ TaskStoreIdle

(* execute_agent_task: the entry is stored before the agent is made; when
   the constructor raises, the handler ends there, with no background task *)
ExecuteAgentTask ==
    /\ Len(background) < MaxTasks
    /\ \E agent_type \in TaskAgentTypes, type \in TaskTaskTypes, configured \in BOOLEAN :
          LET task_id == Len(background) + 1
              llm == initialize_llm(agent_type, configured)
          IN  /\ task_store' = Put(task_store, task_id, Processing)
              /\ background' =
                    Append(background,
                           [agent_type |-> agent_type,
                            task |-> [id |-> task_id, type |-> type],
                            pc |-> IF llm.ok THEN "added" ELSE "never added"])
    /\ UNCHANGED db
    /\ UNCHANGED <<avars, dvars, pvars>>

(* process_agent_task(agent, task, task_id, db), run by the framework after
   the response was sent *)
ProcessAgentTask ==
    /\ \E task_id \in DOMAIN background :
          /\ background[task_id].pc = "added"
          /\ \E llm \in LlmOutcomes, commit \in CommitOutcomes :
                LET b == background[task_id]
                    result == execute_task(b.agent_type, b.task, llm)
                IN  IF result.ok /\ commit.ok
                    THEN /\ task_store' =
                               Put(task_store, task_id,
                                   [status |-> "completed", result |-> Some(result.v),
                                    error |-> None])
                         /\ db' = Append(db, [agent_type |-> b.agent_type,
                                              task_type |-> b.task.type,
                                              result |-> result.v])
                    ELSE /\ task_store' =
                               Put(task_store, task_id,
                                   [status |-> "failed", result |-> None,
                                    error |-> Some(IF result.ok THEN commit.message
                                                   ELSE result.message)])
                         /\ UNCHANGED db
          /\ background' = [background EXCEPT ![task_id].pc = "done"]
    /\ UNCHANGED <<avars, dvars, pvars>>

TaskStoreNext == ExecuteAgentTask \/ ProcessAgentTask

SpecTaskStore == TaskStoreInit /\ [][TaskStoreNext]_vars

(* the framework runs every background task it was handed *)
SpecTaskStoreLive == TaskStoreInit /\ [][TaskStoreNext]_vars /\ WF_vars(ProcessAgentTask)

Settled(task_id) ==
    task_id \in DOMAIN task_store /\ task_store[task_id].status \in {"completed", "failed"}

(* C27: every entry execute_agent_task writes with status processing
   eventually has status completed or failed, whatever the agent type and
   the task type, the unknown ones too, given that the background tasks are
   run; and a completed or failed entry keeps its status. *)
C27_EventuallySettled ==
    /\ \A task_id \in 1..MaxTasks : (task_id \in DOMAIN task_store) ~> Settled(task_id)
    /\ [][\A task_id \in 1..MaxTasks :
              Settled(task_id) => task_store'[task_id].status = task_store[task_id].status]_vars

(* a settled entry keeps its status: the part of C27 the code has *)
C27_SettledIsStable ==
    [][\A task_id \in 1..MaxTasks :
          Settled(task_id) => task_store'[task_id].status = task_store[task_id].status]_vars

(* an entry whose agent was made is settled in the end *)
C27_AddedIsSettled ==
    \A task_id \in 1..MaxTasks :
        (task_id \in DOMAIN background /\ background[task_id].pc = "added")
            ~> Settled(task_id)

(* C28: an entry has status completed only if the result it holds has status
   completed: when execute_task ends in failure, the entry has status failed
   and an error. *)
C28_CompletedOnlyIfResultCompleted ==
    \A task_id \in DOMAIN task_store :
        task_store[task_id].status = "completed" =>
            task_store[task_id].result[1].status = "completed"

(* a failed entry has an error and no result, a completed one a result and
   no error *)
C28_EntryShape ==
    \A task_id \in DOMAIN task_store :
        LET entry == task_store[task_id]
        IN  /\ entry.status = "failed" => (entry.error # None /\ entry.result = None)
            /\ entry.status = "completed" => (entry.error = None /\ entry.result # None)
            /\ entry.status = "processing" => (entry.error = None /\ entry.result = None)
=============================================================================
